---- MODULE Spec2Model ----
(***************************************************************************)
(* VoxStats: the session store (voxlib/database/utils/sessions.py), the    *)
(* session commands of the Discord cog (app/cogs/game/sessions.py) and the *)
(* stats source they read through PlayerInfo and the cached API client.    *)
(*                                                                         *)
(* Every command handler is a coroutine.  A coroutine runs without         *)
(* interruption between two awaits on the network, so one action of the    *)
(* model is the code between two such awaits.  The DB calls are            *)
(* synchronous (pymysql) and therefore never a suspension point.           *)
(***************************************************************************)
EXTENDS Integers, Sequences, FiniteSets, TLC

\* ------------------------------------------------------------------ bounds
NumProcs == 2       \* command handlers that can be in flight together
MaxCmds == 2        \* commands issued in one behaviour
MaxChanges == 1     \* the stats source changes at most this many times
MaxExpiries == 1    \* cached responses found expired in one behaviour
MaxClock == 1       \* the database clock runs from 0 to this

NumSlots == 2       \* session slots the model lets the commands choose from

\* ------------------------------------------------------- program constants
None == -1          \* Python's None where the code expects a number
NoEntry == -2       \* no cached response for a request
NoData == -1        \* the API answered HTTP 400: _make_request returns None

Procs == 1..NumProcs
Players == {"p1", "p2"}
Users == {"d1", "d2"}
Slots == 1..NumSlots
Versions == 0..MaxChanges
Endpoints == {"info", "game", "overall"}
GameModes == {"solo", "duo"}

VARIABLES
    sessions,   \* the sessions table: rows in insertion order
    linked,     \* the linked table: rows in insertion order
    source,     \* what the stats API knows of each player: a version or NoData
    cache,      \* voxyl_cache: the cached response of (player, endpoint)
    now,        \* the database clock, NOW(), as of the last statement that read it
    pc,         \* where each handler is: "idle" or "fetch"
    cmd,        \* the command a handler runs
    args,       \* the values a handler has fetched so far
    snap,       \* session_data of render_session: <<row>>, or <<>> outside a render
    reply,      \* the command that finished in the last step and the reply it gave
    ncmds,      \* commands issued so far
    nexp,       \* cached responses found expired so far
    call        \* a library call examined on its own: its arguments, position and result

vars == <<sessions, linked, source, cache, now, pc, cmd, args, snap, reply, ncmds, nexp, call>>

\* ------------------------------------------------------- the stats source
\* The body of player/stats/game/{uuid} at version v: per game mode counters.
GameBody(v) ==
    [stats |->
        [m \in GameModes |->
            IF m = "solo"
            THEN [wins |-> 6 + 3 * v, kills |-> 3 + 2 * v, finals |-> 1 + v, beds |-> v]
            ELSE [wins |-> 4 + 2 * v, kills |-> 2 + 2 * v, finals |-> v, beds |-> 0]]]

\* The body of player/stats/overall/{uuid} at version v.
OverallBody(v) ==
    [level |-> 4 + v,
     exp |-> IF v % 2 = 0 THEN 500 ELSE 200,
     weightedwins |-> 20 + 8 * v]

\* The body of player/info/{uuid} at version v.
InfoBody(v) == [lastLoginTime |-> 1000 + v, role |-> "Master"]

RECURSIVE SumOver(_, _, _)
SumOver(stats, modes, key) ==
    IF modes = {} THEN 0
    ELSE LET m == CHOOSE x \in modes : TRUE
         IN stats[m][key] + SumOver(stats, modes \ {m}, key)

\* PlayerInfo properties; r is the response of the request: a version or NoData.
Wins(r) == IF r = NoData THEN None ELSE SumOver(GameBody(r).stats, GameModes, "wins")
Kills(r) == IF r = NoData THEN None ELSE SumOver(GameBody(r).stats, GameModes, "kills")
Finals(r) == IF r = NoData THEN None ELSE SumOver(GameBody(r).stats, GameModes, "finals")
Beds(r) == IF r = NoData THEN None ELSE SumOver(GameBody(r).stats, GameModes, "beds")
Level(r) == IF r = NoData THEN None ELSE OverallBody(r).level
Exp(r) == IF r = NoData THEN None ELSE OverallBody(r).exp
WeightedWins(r) == IF r = NoData THEN None ELSE OverallBody(r).weightedwins

LastLoginTime(r) == IF r = NoData THEN None ELSE InfoBody(r).lastLoginTime

\* The order in which create_session / reset_session evaluate their arguments.
ArgOrder == <<"wins", "weighted", "kills", "finals", "beds", "star", "xp">>
NumArgs == 7

ArgEndpoint(i) ==
    IF ArgOrder[i] \in {"wins", "kills", "finals", "beds"} THEN "game" ELSE "overall"

ArgValue(i, r) ==
    CASE ArgOrder[i] = "wins" -> Wins(r)
      [] ArgOrder[i] = "weighted" -> WeightedWins(r)
      [] ArgOrder[i] = "kills" -> Kills(r)
      [] ArgOrder[i] = "finals" -> Finals(r)
      [] ArgOrder[i] = "beds" -> Beds(r)
      [] ArgOrder[i] = "star" -> Level(r)
      [] ArgOrder[i] = "xp" -> Exp(r)

\* VoxylAPI.make_request through the cached session (cache=True, voxyl_cache):
\* a cached response that has not reached expire_after is returned as is,
\* otherwise the API is asked.  Whether the entry has expired by the time of the
\* request is an input of the request.
Response(p, e, expired) ==
    IF cache[p][e] # NoEntry /\ ~expired THEN cache[p][e] ELSE source[p]

\* The cache after the request: the backend stores HTTP 200 responses only and
\* drops the expired entry it found.
CacheAfter(p, e, expired) ==
    IF cache[p][e] # NoEntry /\ ~expired THEN cache
    ELSE [cache EXCEPT ![p][e] = IF source[p] = NoData THEN NoEntry ELSE source[p]]

\* An entry is stale when the API would answer something else by now.  Finding
\* a fresh entry expired changes nothing, so only stale ones are let expire.
Stale(p, e) == cache[p][e] # NoEntry /\ cache[p][e] # source[p]

Expiry(p, e, expired) ==
    /\ expired => (Stale(p, e) /\ nexp < MaxExpiries)
    /\ nexp' = IF expired THEN nexp + 1 ELSE nexp

\* ------------------------------------------------------ the sessions table
Matching(u, s) == {i \in 1..Len(sessions) : sessions[i].uuid = u /\ sessions[i].session_id = s}

\* Sessions.get_session: cursor.fetchone() of the matching rows; the rows it
\* may return (none: the method returns None).
GetSession(u, s) == {sessions[i] : i \in Matching(u, s)}

\* `if session_stats:` in the handlers: truthy iff a row matches.
HasSession(u, s) == GetSession(u, s) # {}

NewRow(u, s, a, t) ==
    [uuid |-> u, session_id |-> s,
     wins |-> a[1], weighted |-> a[2], kills |-> a[3], finals |-> a[4],
     beds |-> a[5], star |-> a[6], xp |-> a[7], start_date |-> t]

\* An INSERT whose first two values are bound in the wrong order.
InsertRowSwapped(u, s, a, t) ==
    Append(sessions, [NewRow(u, s, a, t) EXCEPT !.wins = a[2], !.weighted = a[1]])

\* INSERT INTO sessions (...) VALUES (..., NOW(), ...)
InsertRow(u, s, a, t) == Append(sessions, NewRow(u, s, a, t))

\* An UPDATE that leaves start_date out of its SET list.
UpdateRowsKeepDate(u, s, a, t) ==
    [i \in 1..Len(sessions) |->
        IF i \in Matching(u, s)
        THEN [NewRow(u, s, a, t) EXCEPT !.start_date = sessions[i].start_date]
        ELSE sessions[i]]

\* An UPDATE whose WHERE clause names the player only.
UpdateRowsAllSlots(u, s, a, t) ==
    [i \in 1..Len(sessions) |->
        IF sessions[i].uuid = u
        THEN NewRow(u, sessions[i].session_id, a, t)
        ELSE sessions[i]]

\* An UPDATE that inserts the row when no row matches.
UpdateRowsOrInsert(u, s, a, t) ==
    IF Matching(u, s) = {} THEN Append(sessions, NewRow(u, s, a, t))
    ELSE [i \in 1..Len(sessions) |->
             IF i \in Matching(u, s) THEN NewRow(u, s, a, t) ELSE sessions[i]]

\* An UPDATE that refreshes the five counters and leaves star and xp as they were.
UpdateRowsCountersOnly(u, s, a, t) ==
    [i \in 1..Len(sessions) |->
        IF i \in Matching(u, s)
        THEN [NewRow(u, s, a, t) EXCEPT !.star = sessions[i].star, !.xp = sessions[i].xp]
        ELSE sessions[i]]

\* UPDATE sessions SET ... WHERE uuid=%s AND session_id=%s
UpdateRows(u, s, a, t) ==
    [i \in 1..Len(sessions) |->
        IF i \in Matching(u, s) THEN NewRow(u, s, a, t) ELSE sessions[i]]

\* A DELETE whose effect is lost.
DeleteRowsLost(u, s) == sessions

\* DELETE FROM sessions WHERE uuid=%s AND session_id=%s
DeleteRows(u, s) ==
    SelectSeq(sessions, LAMBDA r : ~(r.uuid = u /\ r.session_id = s))

\* ------------------------------------------------------------------- Init
\* At the start the API has a record of p1 and none of p2, who never played.
InitialSource == [p \in Players |-> IF p = "p1" THEN 0 ELSE NoData]

NoCmd == [kind |-> "none", user |-> "", uuid |-> "", slot |-> 0]
NoReply == [cmd |-> NoCmd, text |-> "none", report |-> <<>>]
NoCall == [fn |-> "none"]

\* The bot starts on the database its earlier runs left: an empty one, one
\* where d1 has linked p1, or one where d1 has also started session 1 of p1,
\* be it at the counters the API answers now or at higher ones.
InitialSession ==
    [uuid |-> "p1", session_id |-> 1,
     wins |-> Wins(0), weighted |-> WeightedWins(0), kills |-> Kills(0),
     finals |-> Finals(0), beds |-> Beds(0), star |-> Level(0), xp |-> Exp(0),
     start_date |-> 0]

\* A session of p1 whose snapshot was taken when the API answered higher
\* counters than it answers now.
InitialSessionAhead ==
    [uuid |-> "p1", session_id |-> 1,
     wins |-> Wins(1), weighted |-> WeightedWins(1), kills |-> Kills(1),
     finals |-> Finals(1), beds |-> Beds(1), star |-> Level(1), xp |-> Exp(1),
     start_date |-> 0]

InitialLink == [discord_id |-> "d1", uuid |-> "p1"]

Init ==
    /\ \/ linked = <<>> /\ sessions = <<>>
       \/ linked = <<InitialLink>> /\ sessions = <<>>
       \/ linked = <<InitialLink>> /\ sessions = <<InitialSession>>
       \/ linked = <<InitialLink>> /\ sessions = <<InitialSessionAhead>>
    /\ source = InitialSource
    /\ cache = [p \in Players |-> [e \in Endpoints |-> NoEntry]]
    /\ now = 0
    /\ pc = [pr \in Procs |-> "idle"]
    /\ cmd = [pr \in Procs |-> NoCmd]
    /\ args = [pr \in Procs |-> <<>>]
    /\ snap = [pr \in Procs |-> <<>>]
    /\ reply = NoReply
    /\ ncmds = 0
    /\ nexp = 0
    /\ call = NoCall

\* -------------------------------------------------------- experience curve
\* A requirement that has the same plateau in every century.
GetXpForLevelFlat(level) ==
    IF (level % 100) \in 0..4 THEN 1000 * ((level % 100) + 1) ELSE 5000

\* xp_map.get_xp_for_level
GetXpForLevel(level) ==
    LET block == level \div 100
        m == level % 100
    IN IF m \in 0..4 THEN 1000 * (m + 1)
       ELSE CASE block = 0 -> 5000
              [] block = 1 -> 5500
              [] block = 2 -> 6000
              [] block = 3 -> 6500
              [] block = 4 -> 7000
              [] block = 5 -> 7500
              [] block = 6 -> 8000
              [] block = 7 -> 8500
              [] block = 8 -> 9000
              [] block = 9 -> 9500
              [] OTHER -> 10000

\* tools.get_total_xp: for lvl in range(1, level): total_xp += get_xp_for_level(lvl)
RECURSIVE SumLevels(_, _)
SumLevels(lvl, level) ==
    IF lvl >= level THEN 0 ELSE GetXpForLevel(lvl) + SumLevels(lvl + 1, level)

\* A total whose loop starts at level 0.
GetTotalXpFromZero(level, partial_xp) == SumLevels(0, level) + partial_xp

\* A total that counts only the level reached last.
GetTotalXpLastLevel(level, partial_xp) ==
    (IF level > 1 THEN GetXpForLevel(level - 1) ELSE 0) + partial_xp

GetTotalXp(level, partial_xp) == SumLevels(1, level) + partial_xp

\* ------------------------------------------------------- the linked table
LinkedRows(d) == {i \in 1..Len(linked) : linked[i].discord_id = d}

\* Linking.get_linked_player: cursor.fetchone() of the rows of d, or None.
\* The uuid of the row (linked[1] in the callers), "" standing for None.
LinkedUuids(d) ==
    IF LinkedRows(d) = {} THEN {""} ELSE {linked[i].uuid : i \in LinkedRows(d)}

\* A link that always inserts, whether or not the account has a row.
LinkPlayerAlwaysInsert(d, u) ==
    /\ ncmds < MaxCmds
    /\ ncmds' = ncmds + 1
    /\ linked' = Append(linked, [discord_id |-> d, uuid |-> u])
    /\ reply' = NoReply
    /\ UNCHANGED <<call, sessions, source, cache, now, pc, cmd, args, snap, nexp>>

\* Linking.link_player: INSERT when the account has no row, else UPDATE.
LinkPlayer(d, u) ==
    /\ ncmds < MaxCmds
    /\ ncmds' = ncmds + 1
    /\ linked' = IF LinkedRows(d) = {}
                 THEN Append(linked, [discord_id |-> d, uuid |-> u])
                 ELSE [i \in 1..Len(linked) |->
                          IF i \in LinkedRows(d)
                          THEN [discord_id |-> d, uuid |-> u]
                          ELSE linked[i]]
    /\ reply' = NoReply
    /\ UNCHANGED <<call, sessions, source, cache, now, pc, cmd, args, snap, nexp>>

\* An unlink that also deletes the sessions of the player the account was
\* linked to.
UnlinkPlayerCascade(d) ==
    /\ ncmds < MaxCmds
    /\ LinkedRows(d) # {}
    /\ ncmds' = ncmds + 1
    /\ linked' = SelectSeq(linked, LAMBDA r : r.discord_id # d)
    /\ sessions' = SelectSeq(sessions, LAMBDA r : r.uuid \notin LinkedUuids(d))
    /\ reply' = NoReply
    /\ UNCHANGED <<call, source, cache, now, pc, cmd, args, snap, nexp>>

\* Linking.unlink_player: DELETE FROM linked WHERE discord_id=%s
UnlinkPlayer(d) ==
    /\ ncmds < MaxCmds
    /\ LinkedRows(d) # {}
    /\ ncmds' = ncmds + 1
    /\ linked' = SelectSeq(linked, LAMBDA r : r.discord_id # d)
    /\ reply' = NoReply
    /\ UNCHANGED <<call, sessions, source, cache, now, pc, cmd, args, snap, nexp>>

\* ------------------------------------------------------- command handlers
\* A handler that replies at once: it is idle again, with its reply recorded.
ReplyWith(pr, c, o, rep) ==
    /\ pc' = [pc EXCEPT ![pr] = "idle"]
    /\ cmd' = [cmd EXCEPT ![pr] = NoCmd]
    /\ args' = [args EXCEPT ![pr] = <<>>]
    /\ snap' = [snap EXCEPT ![pr] = <<>>]
    /\ reply' = [cmd |-> c, text |-> o, report |-> rep]

Reply(pr, c, o) == ReplyWith(pr, c, o, <<>>)

\* A handler that goes on to fetch the arguments of its SQL statement.
BeginFetch(pr, c, sd) ==
    /\ pc' = [pc EXCEPT ![pr] = "fetch"]
    /\ cmd' = [cmd EXCEPT ![pr] = c]
    /\ args' = [args EXCEPT ![pr] = <<>>]
    /\ snap' = [snap EXCEPT ![pr] = sd]
    /\ reply' = NoReply

\* A start that skips the lookup of an existing session.
StartSessionNoCheck(pr, d, s) ==
    /\ pc[pr] = "idle"
    /\ ncmds < MaxCmds
    /\ ncmds' = ncmds + 1
    /\ \E u \in LinkedUuids(d) :
         LET c == [kind |-> "start", user |-> d, uuid |-> u, slot |-> s] IN
         IF u = "" THEN Reply(pr, c, "NotLinked")
         ELSE BeginFetch(pr, c, <<>>)
    /\ UNCHANGED <<call, sessions, linked, source, cache, now, nexp>>

\* /session start, up to the first stats request of create_session.
StartSession(pr, d, s) ==
    /\ pc[pr] = "idle"
    /\ ncmds < MaxCmds
    /\ ncmds' = ncmds + 1
    /\ \E u \in LinkedUuids(d) :
         LET c == [kind |-> "start", user |-> d, uuid |-> u, slot |-> s] IN
         IF u = "" THEN Reply(pr, c, "NotLinked")
         ELSE IF HasSession(u, s) THEN Reply(pr, c, "AlreadyActive")
         ELSE BeginFetch(pr, c, <<>>)
    /\ UNCHANGED <<call, sessions, linked, source, cache, now, nexp>>

\* A reset that skips the lookup of an existing session.
ResetSessionNoCheck(pr, d, s) ==
    /\ pc[pr] = "idle"
    /\ ncmds < MaxCmds
    /\ ncmds' = ncmds + 1
    /\ \E u \in LinkedUuids(d) :
         LET c == [kind |-> "reset", user |-> d, uuid |-> u, slot |-> s] IN
         IF u = "" THEN Reply(pr, c, "NotLinked")
         ELSE BeginFetch(pr, c, <<>>)
    /\ UNCHANGED <<call, sessions, linked, source, cache, now, nexp>>

\* /session reset, up to the first stats request of reset_session.
ResetSession(pr, d, s) ==
    /\ pc[pr] = "idle"
    /\ ncmds < MaxCmds
    /\ ncmds' = ncmds + 1
    /\ \E u \in LinkedUuids(d) :
         LET c == [kind |-> "reset", user |-> d, uuid |-> u, slot |-> s] IN
         IF u = "" THEN Reply(pr, c, "NotLinked")
         ELSE IF HasSession(u, s) THEN BeginFetch(pr, c, <<>>)
         ELSE Reply(pr, c, "NotActive")
    /\ UNCHANGED <<call, sessions, linked, source, cache, now, nexp>>

\* /session view, up to the first stats request of create_session or of
\* render_session.  fetch_player resolves the player (the name given, or the
\* linked account when target is "") and asks the API whether they ever
\* played; apiok is FALSE when that request raises.
ViewSession(pr, d, target, s, expired, apiok) ==
    /\ pc[pr] = "idle"
    /\ ncmds < MaxCmds
    /\ ncmds' = ncmds + 1
    /\ \E u \in (IF target = "" THEN LinkedUuids(d) ELSE {target}) :
         LET c == [kind |-> "view", user |-> d, uuid |-> u, slot |-> s] IN
         IF u = "" THEN Reply(pr, c, "NotLinked") /\ UNCHANGED <<cache, nexp>>
         ELSE IF ~apiok THEN Reply(pr, c, "ApiDown") /\ UNCHANGED <<cache, nexp>>
         ELSE /\ Expiry(u, "info", expired)
              /\ cache' = CacheAfter(u, "info", expired)
              /\ IF LastLoginTime(Response(u, "info", expired)) = None
                 THEN Reply(pr, c, "NeverPlayed")
                 ELSE IF ~HasSession(u, s)
                      THEN BeginFetch(pr, c, <<>>)
                      ELSE \E sd \in GetSession(u, s) : BeginFetch(pr, c, <<sd>>)
    /\ UNCHANGED <<call, sessions, linked, source, now>>

\* An end that runs the DELETE and confirms it whether or not a row matches.
EndSessionAlwaysDeleted(pr, d, s) ==
    /\ pc[pr] = "idle"
    /\ ncmds < MaxCmds
    /\ ncmds' = ncmds + 1
    /\ \E u \in LinkedUuids(d) :
         LET c == [kind |-> "end", user |-> d, uuid |-> u, slot |-> s] IN
         IF u = "" THEN Reply(pr, c, "NotLinked") /\ sessions' = sessions
         ELSE Reply(pr, c, "Deleted") /\ sessions' = DeleteRows(u, s)
    /\ UNCHANGED <<call, linked, source, cache, now, nexp>>

\* /session end: the lookup and the DELETE run without an await between them.
EndSession(pr, d, s) ==
    /\ pc[pr] = "idle"
    /\ ncmds < MaxCmds
    /\ ncmds' = ncmds + 1
    /\ \E u \in LinkedUuids(d) :
         LET c == [kind |-> "end", user |-> d, uuid |-> u, slot |-> s] IN
         IF u = "" THEN Reply(pr, c, "NotLinked") /\ sessions' = sessions
         ELSE IF HasSession(u, s)
              THEN Reply(pr, c, "Deleted") /\ sessions' = DeleteRows(u, s)
              ELSE Reply(pr, c, "NotActive") /\ sessions' = sessions
    /\ UNCHANGED <<call, linked, source, cache, now, nexp>>

\* Sessions.get_active_sessions: SELECT session_id FROM sessions WHERE uuid=%s,
\* fetchall: one session_id per row of the player, in table order.
GetActiveSessions(u) ==
    LET rows == SelectSeq(sessions, LAMBDA r : r.uuid = u)
    IN [i \in 1..Len(rows) |-> rows[i].session_id]

\* sorted(active_sessions)
RECURSIVE Sorted(_)
Sorted(ids) ==
    IF ids = <<>> THEN <<>>
    ELSE LET i == CHOOSE k \in 1..Len(ids) : \A j \in 1..Len(ids) : ids[k] <= ids[j]
         IN <<ids[i]>> \o Sorted(SubSeq(ids, 1, i - 1) \o SubSeq(ids, i + 1, Len(ids)))

\* /session active: the lookup and the reply have no stats request between them.
ActiveSessions(pr, d) ==
    /\ pc[pr] = "idle"
    /\ ncmds < MaxCmds
    /\ ncmds' = ncmds + 1
    /\ \E u \in LinkedUuids(d) :
         LET c == [kind |-> "active", user |-> d, uuid |-> u, slot |-> 0] IN
         IF u = "" THEN Reply(pr, c, "NotLinked")
         ELSE IF GetActiveSessions(u) # <<>>
              THEN ReplyWith(pr, c, "Active", Sorted(GetActiveSessions(u)))
              ELSE Reply(pr, c, "NoneActive")
    /\ UNCHANGED <<call, sessions, linked, source, cache, now, nexp>>

\* One more argument of the SQL statement: await player.<property>.
FetchArg(pr, expired) ==
    /\ pc[pr] = "fetch"
    /\ snap[pr] = <<>>
    /\ Len(args[pr]) < NumArgs - 1
    /\ LET i == Len(args[pr]) + 1
           p == cmd[pr].uuid
           e == ArgEndpoint(i)
       IN /\ Expiry(p, e, expired)
          /\ args' = [args EXCEPT ![pr] = Append(@, ArgValue(i, Response(p, e, expired)))]
          /\ cache' = CacheAfter(p, e, expired)
    /\ reply' = NoReply
    /\ UNCHANGED <<call, sessions, linked, source, now, pc, cmd, snap, ncmds>>

\* cursor.execute of the statement of the command, with all arguments a.
Execute(c, a, t) ==
    IF c.kind = "reset" THEN UpdateRows(c.uuid, c.slot, a, t) ELSE InsertRow(c.uuid, c.slot, a, t)

Done(c) ==
    CASE c.kind = "start" -> "Created"
      [] c.kind = "reset" -> "Reset"
      [] OTHER -> "ViewCreated"

\* The last argument arrives and cursor.execute runs in the same step.
FetchLastAndExecute(pr, expired, t) ==
    /\ pc[pr] = "fetch"
    /\ snap[pr] = <<>>
    /\ Len(args[pr]) = NumArgs - 1
    /\ LET p == cmd[pr].uuid
           e == ArgEndpoint(NumArgs)
           a == Append(args[pr], ArgValue(NumArgs, Response(p, e, expired)))
       IN /\ Expiry(p, e, expired)
          /\ sessions' = Execute(cmd[pr], a, t)
          /\ cache' = CacheAfter(p, e, expired)
    /\ now' = t
    /\ Reply(pr, cmd[pr], Done(cmd[pr]))
    /\ UNCHANGED <<call, linked, source, ncmds>>

\* session_data[2..8] of the row read by render_session, in argument order.
SnapField(sd, i) ==
    CASE ArgOrder[i] = "wins" -> sd.wins
      [] ArgOrder[i] = "weighted" -> sd.weighted
      [] ArgOrder[i] = "kills" -> sd.kills
      [] ArgOrder[i] = "finals" -> sd.finals
      [] ArgOrder[i] = "beds" -> sd.beds
      [] ArgOrder[i] = "star" -> sd.star
      [] ArgOrder[i] = "xp" -> sd.xp

\* render_session reads one more live value: int(await player.wins - session_data[2])
\* and so on.  A None on either side is a TypeError, which view_session answers
\* with "Something went wrong".
FetchLive(pr, expired) ==
    /\ pc[pr] = "fetch"
    /\ snap[pr] # <<>>
    /\ Len(args[pr]) < NumArgs
    /\ LET i == Len(args[pr]) + 1
           p == cmd[pr].uuid
           e == ArgEndpoint(i)
           v == ArgValue(i, Response(p, e, expired))
       IN /\ Expiry(p, e, expired)
          /\ cache' = CacheAfter(p, e, expired)
          /\ IF v = None \/ SnapField(snap[pr][1], i) = None
             THEN Reply(pr, cmd[pr], "Failure")
             ELSE /\ args' = [args EXCEPT ![pr] = Append(@, v)]
                  /\ reply' = NoReply
                  /\ UNCHANGED <<pc, cmd, snap>>
    /\ UNCHANGED <<call, sessions, linked, source, now, ncmds>>

\* A report whose deltas are clamped at zero.
ReportClamped(sd, a) ==
    LET Pos(x) == IF x < 0 THEN 0 ELSE x
    IN [wins |-> Pos(a[1] - sd.wins),
        weighted |-> Pos(a[2] - sd.weighted),
        kills |-> Pos(a[3] - sd.kills),
        finals |-> Pos(a[4] - sd.finals),
        beds |-> Pos(a[5] - sd.beds),
        exp_gained |-> GetTotalXp(a[6], a[7]) - GetTotalXp(sd.star, sd.xp),
        started |-> sd.start_date]

\* What render_session draws: the counter deltas, the experience gained and
\* the start date of the session.
Report(sd, a) ==
    [wins |-> a[1] - sd.wins,
     weighted |-> a[2] - sd.weighted,
     kills |-> a[3] - sd.kills,
     finals |-> a[4] - sd.finals,
     beds |-> a[5] - sd.beds,
     exp_gained |-> GetTotalXp(a[6], a[7]) - GetTotalXp(sd.star, sd.xp),
     started |-> sd.start_date]

\* A drawing that stores the values it fetched as the new snapshot.
DrawAndStore(pr) ==
    /\ pc[pr] = "fetch"
    /\ snap[pr] # <<>>
    /\ Len(args[pr]) = NumArgs
    /\ LET p == cmd[pr].uuid
           c1 == CacheAfter(p, "info", FALSE)
       IN cache' = [c1 EXCEPT ![p]["overall"] = CacheAfter(p, "overall", FALSE)[p]["overall"]]
    /\ sessions' = UpdateRows(cmd[pr].uuid, cmd[pr].slot, args[pr], snap[pr][1].start_date)
    /\ ReplyWith(pr, cmd[pr], "Report", <<Report(snap[pr][1], args[pr])>>)
    /\ UNCHANGED <<call, linked, source, now, ncmds, nexp>>

\* The rest of render_session: display name and progress bar (role, level and
\* exp are requested once more, which fills the cache where it is empty), the
\* skin, and the image is saved and sent.
Draw(pr) ==
    /\ pc[pr] = "fetch"
    /\ snap[pr] # <<>>
    /\ Len(args[pr]) = NumArgs
    /\ LET p == cmd[pr].uuid
           c1 == CacheAfter(p, "info", FALSE)
       IN cache' = [c1 EXCEPT ![p]["overall"] = CacheAfter(p, "overall", FALSE)[p]["overall"]]
    /\ ReplyWith(pr, cmd[pr], "Report", <<Report(snap[pr][1], args[pr])>>)
    /\ UNCHANGED <<call, sessions, linked, source, now, ncmds, nexp>>

\* What the handler answers when a stats request raises APIError: start_session
\* prints it in its inner except and returns without a reply, the others reach
\* the outer except and answer "Something went wrong".
OnError(c) == IF c.kind = "start" THEN "none" ELSE "Failure"

\* A statement that runs with the arguments fetched before the request that
\* raised, the missing ones bound to None.
FetchRaisesPartial(pr) ==
    /\ pc[pr] = "fetch"
    /\ sessions' = IF snap[pr] = <<>>
                   THEN Execute(cmd[pr], [k \in 1..NumArgs |->
                            IF k <= Len(args[pr]) THEN args[pr][k] ELSE None], now)
                   ELSE sessions
    /\ Reply(pr, cmd[pr], OnError(cmd[pr]))
    /\ UNCHANGED <<call, linked, source, cache, now, ncmds, nexp>>

\* make_request raises (its retries are used up) while an argument is fetched.
FetchRaises(pr) ==
    /\ pc[pr] = "fetch"
    /\ Reply(pr, cmd[pr], OnError(cmd[pr]))
    /\ UNCHANGED <<call, sessions, linked, source, cache, now, ncmds, nexp>>

\* ------------------------------------------------------------ environment
\* The player plays on: the API has newer counters (or a first record).
RECURSIVE ChangesOf(_)
ChangesOf(ps) ==
    IF ps = {} THEN 0
    ELSE LET p == CHOOSE x \in ps : TRUE
         IN (source[p] - InitialSource[p]) + ChangesOf(ps \ {p})

SourceChange(p) ==
    /\ ChangesOf(Players) < MaxChanges
    /\ source' = [source EXCEPT ![p] = IF @ = NoData THEN 0 ELSE @ + 1]
    /\ reply' = NoReply
    /\ UNCHANGED <<call, sessions, linked, cache, now, pc, cmd, args, snap, ncmds, nexp>>

Next ==
    \/ \E d \in Users, u \in Players : LinkPlayer(d, u)
    \/ \E d \in Users : UnlinkPlayer(d)
    \/ \E pr \in Procs, d \in Users, s \in Slots : StartSession(pr, d, s)
    \/ \E pr \in Procs, d \in Users, s \in Slots : ResetSession(pr, d, s)
    \/ \E pr \in Procs, d \in Users, s \in Slots : EndSession(pr, d, s)
    \/ \E pr \in Procs, d \in Users : ActiveSessions(pr, d)
    \/ \E pr \in Procs, d \in Users, target \in Players \cup {""}, s \in Slots,
          expired \in BOOLEAN, apiok \in BOOLEAN : ViewSession(pr, d, target, s, expired, apiok)
    \/ \E pr \in Procs, expired \in BOOLEAN : FetchLive(pr, expired)
    \/ \E pr \in Procs : Draw(pr)
    \/ \E pr \in Procs, expired \in BOOLEAN : FetchArg(pr, expired)
    \/ \E pr \in Procs, expired \in BOOLEAN, t \in now..MaxClock : FetchLastAndExecute(pr, expired, t)
    \/ \E pr \in Procs : FetchRaises(pr)
    \/ \E p \in Players : SourceChange(p)

Spec == Init /\ [][Next]_vars

\* ============================================== library calls on their own
\* The variables of the bot while a library call is followed on its own.
appVars == <<sessions, linked, source, cache, now, pc, cmd, args, snap, reply, ncmds, nexp>>

AppIdle ==
    /\ sessions = <<>>
    /\ linked = <<>>
    /\ source = InitialSource
    /\ cache = [p \in Players |-> [e \in Endpoints |-> NoEntry]]
    /\ now = 0
    /\ pc = [pr \in Procs |-> "idle"]
    /\ cmd = [pr \in Procs |-> NoCmd]
    /\ args = [pr \in Procs |-> <<>>]
    /\ snap = [pr \in Procs |-> <<>>]
    /\ reply = NoReply
    /\ ncmds = 0
    /\ nexp = 0

\* --------------------------------------------------- VoxylAPI.make_request
Retries == 3        \* retries: int = 3
RetryDelay == 5     \* retry_delay: int = 5

\* What one _make_request does: it returns the content (status 200), returns
\* None (status 400), or raises; whatever is raised inside its try block,
\* RateLimitError and UnexpectedStatusError included, leaves it as an APIError.
Returns == {"content", "none"}
Raises == {"rate_limit", "status", "connection"}

\* errors.py and aiohttp: the classes a class derives from, itself included.
Bases(c) ==
    CASE c = "RateLimitError" -> {"RateLimitError", "APIError", "Exception"}
      [] c = "UnexpectedStatusError" -> {"UnexpectedStatusError", "APIError", "Exception"}
      [] c = "APIError" -> {"APIError", "Exception"}
      [] c = "ClientConnectorError" -> {"ClientConnectorError", "ClientError", "Exception"}
      [] OTHER -> {c, "Exception"}

\* What the try block of _make_request raises for an outcome: RateLimitError
\* on status 429, UnexpectedStatusError on a status that is none of 200, 400
\* and 429, and the client's own error when session.get fails.
RaisedInTry(o) ==
    CASE o = "rate_limit" -> "RateLimitError"
      [] o = "status" -> "UnexpectedStatusError"
      [] o = "connection" -> "ClientConnectorError"

\* The classes named by the except clauses of _make_request; the body of
\* every clause is `raise APIError(...)`.
ExceptClauses ==
    {"ClientConnectorError", "InvalidURL", "ServerTimeoutError", "ClientError",
     "ContentTypeError", "Exception"}

\* The class of the exception that leaves _make_request for an outcome.
MakeRequestRaises(o) ==
    IF Bases(RaisedInTry(o)) \cap ExceptClauses # {} THEN "APIError"
    ELSE RaisedInTry(o)

\* make_request catches APIError and, after the last attempt, re-raises it
\* unchanged; exc is the exception caught last, "none" before any.
MakeRequestCall ==
    [fn |-> "make_request", at |-> "try", attempt |-> 0, log |-> <<>>, slept |-> 0,
     exc |-> "none"]

\* One pass of `for attempt in range(retries + 1)` up to the return, the raise
\* or the await of asyncio.sleep.
AttemptNoRetry(o) ==
    /\ call.fn = "make_request"
    /\ call.at = "try"
    /\ call' = [call EXCEPT !.log = Append(@, o),
                            !.exc = IF o \in Returns THEN @ ELSE MakeRequestRaises(o),
                            !.at = IF o \in Returns THEN "returned" ELSE "raised"]
    /\ UNCHANGED appVars

Attempt(o) ==
    /\ call.fn = "make_request"
    /\ call.at = "try"
    /\ call' = [call EXCEPT !.log = Append(@, o),
                            !.exc = IF o \in Returns THEN @ ELSE MakeRequestRaises(o),
                            !.at = IF o \in Returns THEN "returned"
                                   ELSE IF call.attempt < Retries THEN "sleep"
                                   ELSE "raised"]
    /\ UNCHANGED appVars

\* asyncio.sleep(retry_delay) is over: the loop goes to its next attempt.
Sleep ==
    /\ call.fn = "make_request"
    /\ call.at = "sleep"
    /\ call' = [call EXCEPT !.at = "try", !.attempt = @ + 1, !.slept = @ + RetryDelay]
    /\ UNCHANGED appVars

InitRetry == AppIdle /\ call = MakeRequestCall

NextRetry ==
    \/ \E o \in Returns \cup Raises : Attempt(o)
    \/ Sleep

\* The event loop resumes a coroutine whose sleep is over or whose request has
\* been answered or has timed out.
SpecRetry == InitRetry /\ [][NextRetry]_vars /\ WF_vars(NextRetry)

\* ------------------------------------------------ the experience functions
MaxLevel == 1104        \* get_xp_for_level is called with levels 0..MaxLevel
MaxTotalLevel == 105    \* get_total_xp is called with levels 0..MaxTotalLevel
MaxStarLevel == 6       \* get_xp_and_stars is called with levels 0..MaxStarLevel

\* The partial experience the calls are made with.
PartialXps == {0, 200, 500}

\* round(n / d, 2) in hundredths, for d > 0: the nearest hundredth, the even
\* one of two equally near.  With n a multiple of d / 100, as it is for the
\* calls made here, the quotient is a whole number of hundredths.
RoundHundredths(n, d) ==
    LET q == (100 * n) \div d
        r == (100 * n) % d
    IN IF 2 * r < d THEN q
       ELSE IF 2 * r > d THEN q + 1
       ELSE IF q % 2 = 0 THEN q ELSE q + 1

XpPerStar == 5000       \* stars_gained = round(xp_gained / 5000, 2)

\* tools.get_xp_and_stars: <<xp_gained, stars_gained in hundredths>>
GetXpAndStars(old_level, old_xp, new_level, new_xp) ==
    LET old == GetTotalXp(old_level, old_xp)
        new == GetTotalXp(new_level, new_xp)
        xp_gained == new - old
    IN <<xp_gained, RoundHundredths(xp_gained, XpPerStar)>>

Called(fn, in) == [fn |-> fn, in |-> in, at |-> "called", out |-> <<>>]

XpCalls ==
    {Called("get_xp_for_level", <<l>>) : l \in 0..MaxLevel}
    \cup {Called("get_total_xp", <<l, x>>) : l \in 0..MaxTotalLevel, x \in PartialXps}
    \cup {Called("get_xp_and_stars", <<ol, ox, nl, nx>>) :
              ol \in 0..MaxStarLevel, ox \in PartialXps,
              nl \in 0..MaxStarLevel, nx \in PartialXps}

Return(out) == call' = [call EXCEPT !.at = "returned", !.out = out]

ReturnXpForLevel ==
    /\ call.fn = "get_xp_for_level"
    /\ call.at = "called"
    /\ Return(<<GetXpForLevel(call.in[1])>>)
    /\ UNCHANGED appVars

ReturnTotalXp ==
    /\ call.fn = "get_total_xp"
    /\ call.at = "called"
    /\ Return(<<GetTotalXp(call.in[1], call.in[2])>>)
    /\ UNCHANGED appVars

ReturnXpAndStars ==
    /\ call.fn = "get_xp_and_stars"
    /\ call.at = "called"
    /\ Return(GetXpAndStars(call.in[1], call.in[2], call.in[3], call.in[4]))
    /\ UNCHANGED appVars

InitXp == AppIdle /\ call \in XpCalls

NextXp == ReturnXpForLevel \/ ReturnTotalXp \/ ReturnXpAndStars

SpecXp == InitXp /\ [][NextXp]_vars

\* --------------------------------------- ensure_cursor, async_ensure_cursor
\* The store operations behind the two decorators.
StoreOps ==
    {"get_session", "create_session", "reset_session", "end_session",
     "get_active_sessions", "get_start_date",
     "get_linked_player", "link_player", "unlink_player"}

\* The calls the body of an operation makes, each of which may raise: the
\* stats requests of create_session and reset_session, cursor.execute, and
\* fetchone or fetchall where the body reads a result.
BodyCalls(fn) ==
    CASE fn \in {"create_session", "reset_session"} -> NumArgs + 1
      [] fn \in {"end_session", "unlink_player"} -> 1
      [] fn = "link_player" -> 3
      [] OTHER -> 2

\* A call of a store operation, with or without the cursor keyword: done
\* counts the calls of the body that returned, conns the connections of this
\* call that are open, connects its calls of db_connect.
DbCalls ==
    {[fn |-> f, cursor |-> g, at |-> "called", done |-> 0, conns |-> 0, connects |-> 0] :
        f \in StoreOps, g \in BOOLEAN}

\* The wrapper up to the call of func: a cursor given is reused; otherwise
\* db_connect() opens a connection, or raises and leaves none.
EnterWrapper(ok) ==
    /\ call.fn \in StoreOps
    /\ call.at = "called"
    /\ call.cursor => ok
    /\ call' = IF call.cursor THEN [call EXCEPT !.at = "body"]
               ELSE IF ok
                    THEN [call EXCEPT !.at = "body", !.conns = @ + 1, !.connects = @ + 1]
                    ELSE [call EXCEPT !.at = "raised", !.connects = @ + 1]
    /\ UNCHANGED appVars

\* A wrapper whose connection is closed only when func returns.
LeaveWrapperCloseOnReturn(how) ==
    [call EXCEPT !.at = how,
                 !.conns = IF call.cursor \/ how = "raised" THEN @ ELSE @ - 1]

\* The wrapper is left by `return func(...)` or by what func raises: the
\* block of `with db_connect() as conn` closes the connection either way; a
\* call with a cursor has no such block.
LeaveWrapper(how) ==
    [call EXCEPT !.at = how, !.conns = IF call.cursor THEN @ ELSE @ - 1]

\* One more call of the body returns, or raises and ends the operation.
BodyCall(ok) ==
    /\ call.fn \in StoreOps
    /\ call.at = "body"
    /\ call.done < BodyCalls(call.fn)
    /\ call' = IF ok THEN [call EXCEPT !.done = @ + 1] ELSE LeaveWrapper("raised")
    /\ UNCHANGED appVars

\* The body has made all its calls and returns.
BodyReturns ==
    /\ call.fn \in StoreOps
    /\ call.at = "body"
    /\ call.done = BodyCalls(call.fn)
    /\ call' = LeaveWrapper("returned")
    /\ UNCHANGED appVars

InitDb == AppIdle /\ call \in DbCalls

NextDb ==
    \/ \E ok \in BOOLEAN : EnterWrapper(ok)
    \/ \E ok \in BOOLEAN : BodyCall(ok)
    \/ BodyReturns

SpecDb == InitDb /\ [][NextDb]_vars

\* ================================================================ claims
\* The seven snapshot fields of a row, in argument order.
SnapshotOf(row) ==
    <<row.wins, row.weighted, row.kills, row.finals, row.beds, row.star, row.xp>>

\* The seven values one single answer r of the stats source stands for.
SnapshotAt(r) ==
    <<Wins(r), WeightedWins(r), Kills(r), Finals(r), Beds(r), Level(r), Exp(r)>>

\* A handler is between the existence check and the INSERT of a create on (u, s).
Creating(pr, u, s) ==
    /\ pc[pr] = "fetch"
    /\ snap[pr] = <<>>
    /\ cmd[pr].kind \in {"start", "view"}
    /\ cmd[pr].uuid = u
    /\ cmd[pr].slot = s

\* A handler is between the existence check and the UPDATE of a reset on (u, s).
Resetting(pr, u, s) ==
    /\ pc[pr] = "fetch"
    /\ cmd[pr].kind = "reset"
    /\ cmd[pr].uuid = u
    /\ cmd[pr].slot = s

\* C1: whatever commands were issued, the sessions table holds at most one
\* row for each (player, slot) pair.
C1_OneRowPerKey ==
    \A u \in Players, s \in Slots : Cardinality(Matching(u, s)) <= 1

\* C2: once a create on a key has finished and no other create on that key is
\* still in flight, exactly one row exists for the key -- also when creates on
\* the key overlapped.
C2_CreatesLeaveOneRow ==
    (/\ reply.text \in {"Created", "ViewCreated"}
     /\ \A pr \in Procs : ~Creating(pr, reply.cmd.uuid, reply.cmd.slot))
    => Cardinality(Matching(reply.cmd.uuid, reply.cmd.slot)) = 1

\* C3: the seven snapshot fields of every stored row come from one single
\* answer of the stats source.
C3_RowFromOneFetch ==
    \A i \in 1..Len(sessions) :
        \E r \in {NoData} \cup Versions : SnapshotOf(sessions[i]) = SnapshotAt(r)

\* C6: the table never holds a row with a missing snapshot field: when the
\* source has no data for the player, create and reset write nothing.
C6_NoRowWithMissingField ==
    \A i \in 1..Len(sessions) : \A k \in 1..NumArgs : SnapshotOf(sessions[i])[k] # None

\* The row a create or reset of handler pr has to leave for its key when its
\* statement runs in this step: the six values fetched so far, a seventh one
\* answered in this step, and the clock of this step.
WrittenBy(pr, row) ==
    /\ row.uuid = cmd[pr].uuid
    /\ row.session_id = cmd[pr].slot
    /\ \A k \in 1..(NumArgs - 1) : SnapshotOf(row)[k] = args[pr][k]
    /\ \E r \in {cache[cmd[pr].uuid]["overall"], source[cmd[pr].uuid]} \ {NoEntry} :
           row.xp = Exp(r)
    /\ row.start_date = now'
    /\ now' >= now

\* The positions of the rows of key (u, s) in a table.
RowsOf(tbl, u, s) ==
    {i \in 1..Len(tbl) : tbl[i].uuid = u /\ tbl[i].session_id = s}

\* Handler pr ends its command in this step with one of the replies in texts.
Ends(pr, texts) ==
    /\ pc[pr] = "fetch"
    /\ pc'[pr] = "idle"
    /\ reply'.cmd = cmd[pr]
    /\ reply'.text \in texts

\* A command of this kind is answered in the step that issues it.
Answered(kind) ==
    /\ ncmds' = ncmds + 1
    /\ reply'.cmd.kind = kind
    /\ reply'.cmd.uuid # ""

\* C4: a start on a key that has a session is answered AlreadyActive, never
\* goes on to create, and leaves the table exactly as it was.
C4_CreateOnActiveFails ==
    [][/\ \A pr \in Procs :
            (pc[pr] = "idle" /\ pc'[pr] = "fetch" /\ cmd'[pr].kind = "start")
            => ~HasSession(cmd'[pr].uuid, cmd'[pr].slot)
       /\ (Answered("start") /\ HasSession(reply'.cmd.uuid, reply'.cmd.slot))
            => (reply'.text = "AlreadyActive" /\ sessions' = sessions)]_vars

C4_Witness ==
    /\ reply.cmd.kind = "start"
    /\ reply.text = "AlreadyActive"
    /\ HasSession(reply.cmd.uuid, reply.cmd.slot)

\* C5: when a create inserts on an absent key, get_session of the key then
\* returns exactly one row: the values the stats source answered to this
\* create, each of them a value the source has had for that field, with
\* start_date the time of the insert.
C5_CreateThenGet ==
    [][\A pr \in Procs :
          (/\ Creating(pr, cmd[pr].uuid, cmd[pr].slot)
           /\ Ends(pr, {"Created", "ViewCreated"})
           /\ ~HasSession(cmd[pr].uuid, cmd[pr].slot))
          => /\ Cardinality(RowsOf(sessions', cmd[pr].uuid, cmd[pr].slot)) = 1
             /\ \A i \in RowsOf(sessions', cmd[pr].uuid, cmd[pr].slot) :
                    /\ WrittenBy(pr, sessions'[i])
                    /\ \A k \in 1..NumArgs :
                           \E r \in {NoData} \cup 0..source[cmd[pr].uuid] :
                               SnapshotOf(sessions'[i])[k] = ArgValue(k, r)]_vars

C5_Witness ==
    /\ reply.text \in {"Created", "ViewCreated"}
    /\ Cardinality(GetSession(reply.cmd.uuid, reply.cmd.slot)) = 1
    /\ \E row \in GetSession(reply.cmd.uuid, reply.cmd.slot) :
           row.wins = Wins(0) /\ row.start_date > 0

\* C7: create and reset are all-or-nothing.  While a handler fetches, and when
\* a fetch raises, it leaves the table as it is; when it succeeds, every row
\* it inserts or changes carries all the fetched values and the clock of that
\* one step.
C7_AllOrNothing ==
    [][\A pr \in Procs :
          (pc[pr] = "fetch" /\ snap[pr] = <<>>)
          => /\ Ends(pr, {"none", "Failure"}) => sessions' = sessions
             /\ (pc'[pr] = "fetch" /\ args'[pr] # args[pr]) => sessions' = sessions
             /\ Ends(pr, {"Created", "ViewCreated", "Reset"})
                  => \A i \in 1..Len(sessions') :
                         (i > Len(sessions) \/ sessions'[i] # sessions[i])
                         => WrittenBy(pr, sessions'[i])]_vars

C7_Witness ==
    /\ reply.cmd.kind = "reset"
    /\ reply.text = "Failure"
    /\ InitialSession \in GetSession(reply.cmd.uuid, reply.cmd.slot)

\* C8: a reset on a key without a session is answered NotActive and never
\* goes on to the UPDATE; the table is unchanged, so the key is still absent.
C8_ResetOnAbsentFails ==
    [][/\ \A pr \in Procs :
            (pc[pr] = "idle" /\ pc'[pr] = "fetch" /\ cmd'[pr].kind = "reset")
            => HasSession(cmd'[pr].uuid, cmd'[pr].slot)
       /\ (Answered("reset") /\ ~HasSession(reply'.cmd.uuid, reply'.cmd.slot))
            => /\ reply'.text = "NotActive"
               /\ sessions' = sessions]_vars

C8_Witness ==
    /\ reply.cmd.kind = "reset"
    /\ reply.cmd.uuid # ""
    /\ reply.text = "NotActive"
    /\ ~HasSession(reply.cmd.uuid, reply.cmd.slot)

\* C9: a reset whose UPDATE runs on an active key overwrites the seven
\* snapshot fields of the row with the values fetched by this reset and its
\* start_date with the time of the UPDATE; the key stays active, no row is
\* added or removed and the rows of other keys are untouched.
C9_ResetOverwrites ==
    [][\A pr \in Procs :
          (/\ Resetting(pr, cmd[pr].uuid, cmd[pr].slot)
           /\ Ends(pr, {"Reset"})
           /\ HasSession(cmd[pr].uuid, cmd[pr].slot))
          => /\ Len(sessions') = Len(sessions)
             /\ RowsOf(sessions', cmd[pr].uuid, cmd[pr].slot)
                    = RowsOf(sessions, cmd[pr].uuid, cmd[pr].slot)
             /\ \A i \in 1..Len(sessions) :
                    IF i \in Matching(cmd[pr].uuid, cmd[pr].slot)
                    THEN WrittenBy(pr, sessions'[i])
                    ELSE sessions'[i] = sessions[i]]_vars

C9_Witness ==
    /\ reply.cmd.kind = "reset"
    /\ reply.text = "Reset"
    /\ \E row \in GetSession(reply.cmd.uuid, reply.cmd.slot) :
           row.wins = Wins(1) /\ row.start_date > 0

\* C10: an end on a key without a session is answered NotActive, not Deleted,
\* and changes no row.
C10_EndOnAbsentFails ==
    [][(Answered("end") /\ ~HasSession(reply'.cmd.uuid, reply'.cmd.slot))
          => (reply'.text = "NotActive" /\ sessions' = sessions)]_vars

C10_Witness ==
    /\ reply.cmd.kind = "end"
    /\ reply.cmd.uuid # ""
    /\ reply.text = "NotActive"
    /\ ~HasSession(reply.cmd.uuid, reply.cmd.slot)

\* C11: an end on a key that has a session is answered Deleted and removes
\* every row of the key, leaving the others; from then on get_session of the
\* key finds no row until a create inserts one.
C11_EndRemovesRow ==
    [][/\ (Answered("end") /\ HasSession(reply'.cmd.uuid, reply'.cmd.slot))
            => /\ reply'.text = "Deleted"
               /\ RowsOf(sessions', reply'.cmd.uuid, reply'.cmd.slot) = {}
               /\ sessions' = SelectSeq(sessions, LAMBDA r :
                      ~(r.uuid = reply'.cmd.uuid /\ r.session_id = reply'.cmd.slot))
       /\ \A u \in Players, s \in Slots :
            (RowsOf(sessions, u, s) = {} /\ RowsOf(sessions', u, s) # {})
            => \E pr \in Procs :
                   Creating(pr, u, s) /\ Ends(pr, {"Created", "ViewCreated"})]_vars

C11_Witness ==
    /\ reply.cmd.kind = "end"
    /\ reply.text = "Deleted"
    /\ reply.cmd.slot # InitialSession.session_id
    /\ ~HasSession(reply.cmd.uuid, reply.cmd.slot)

\* C12: for every player, what get_active_sessions lists is exactly the set of
\* slots for which get_session finds a row, each slot listed once.
C12_ListActiveExact ==
    \A u \in Players :
        LET l == Sorted(GetActiveSessions(u)) IN
        /\ {l[i] : i \in 1..Len(l)} = {s \in Slots : HasSession(u, s)}
        /\ \A i, j \in 1..Len(l) : l[i] = l[j] => i = j

\* C13: a start command never ends without an outcome: when a request of its
\* create raises, the command ends with the failure reply.
C13_StartFailureReported ==
    reply.cmd.kind = "start" => reply.text # "none"

\* What holds of a make_request call at every moment: at most Retries + 1
\* attempts, every attempt but the last one raised, RetryDelay was slept
\* between any two attempts, the call returns on its first attempt that
\* returns and raises only after Retries + 1 attempts that raised.
RetrySafe ==
    call.fn = "make_request" =>
        /\ Len(call.log) <= Retries + 1
        /\ \A i \in 1..(Len(call.log) - 1) : call.log[i] \in Raises
        /\ call.slept = RetryDelay * call.attempt
        /\ call.at = "try" => Len(call.log) = call.attempt
        /\ call.at # "try" => Len(call.log) = call.attempt + 1
        /\ call.at = "returned" => call.log[Len(call.log)] \in Returns
        /\ call.at = "sleep" => call.log[Len(call.log)] \in Raises
        /\ call.at = "raised" =>
               /\ Len(call.log) = Retries + 1
               /\ call.log[Len(call.log)] \in Raises

\* C14: make_request makes at most Retries + 1 attempts RetryDelay apart,
\* returns the first response it gets, raises only when every attempt raised,
\* and always ends.
C14_BoundedRetry ==
    []RetrySafe /\ <>(call.at \in {"returned", "raised"})

C14_Witness ==
    /\ call.fn = "make_request"
    /\ call.at = "returned"
    /\ Len(call.log) = Retries + 1
    /\ call.slept = RetryDelay * Retries

\* C15: a view of a key that has no session is answered NotActive at once,
\* without going on to any stats request, and no step of a view changes the
\* table: the key is still absent afterwards.
C15_ViewOnAbsentNotActive ==
    [][\A pr \in Procs :
          /\ (pc[pr] = "idle" /\ pc'[pr] = "fetch" /\ cmd'[pr].kind = "view")
                => HasSession(cmd'[pr].uuid, cmd'[pr].slot)
          /\ (pc[pr] = "fetch" /\ cmd[pr].kind = "view" /\ pc'[pr] = "idle")
                => sessions' = sessions]_vars

\* C16: a view of a key that has a session changes no row: neither the step
\* that reads the row, nor the stats requests of render_session, nor the
\* drawing, nor a failure on the way.  The report it draws is a function of
\* the row it read and of the values it fetched, so two reports made of the
\* same row and the same live values are the same.
C16_ReportChangesNoRow ==
    [][\A pr \in Procs :
          /\ (pc[pr] = "idle" /\ pc'[pr] = "fetch" /\ snap'[pr] # <<>>)
                => /\ sessions' = sessions
                   /\ snap'[pr][1] \in GetSession(cmd'[pr].uuid, cmd'[pr].slot)
          /\ (pc[pr] = "fetch" /\ snap[pr] # <<>>
                /\ (pc'[pr] # pc[pr] \/ args'[pr] # args[pr]))
                => sessions' = sessions
          /\ (pc[pr] = "fetch" /\ snap[pr] # <<>> /\ pc'[pr] = "idle"
                /\ reply'.text = "Report")
                => reply'.report = <<Report(snap[pr][1], args[pr])>>]_vars

C16_Witness ==
    /\ reply.cmd.kind = "view"
    /\ reply.text = "Report"
    /\ \E row \in GetSession(reply.cmd.uuid, reply.cmd.slot) :
           reply.report[1].started = row.start_date

\* C17: in every report each of the five deltas is the value fetched for the
\* counter minus the value stored in the row that was read, below zero when
\* the fetched value is the lower one.
C17_DeltaIsLiveMinusStored ==
    [][\A pr \in Procs :
          (pc[pr] = "fetch" /\ snap[pr] # <<>> /\ pc'[pr] = "idle" /\ reply'.text = "Report")
          => LET r == reply'.report[1]
                 sd == snap[pr][1]
             IN /\ r.wins = args[pr][1] - sd.wins
                /\ r.weighted = args[pr][2] - sd.weighted
                /\ r.kills = args[pr][3] - sd.kills
                /\ r.finals = args[pr][4] - sd.finals
                /\ r.beds = args[pr][5] - sd.beds
                /\ (sd = InitialSession /\ SubSeq(args[pr], 1, 5) = <<15, 28, 9, 3, 1>>)
                      => <<r.wins, r.weighted, r.kills, r.finals, r.beds>> = <<5, 8, 4, 2, 1>>]_vars

C17_Witness ==
    /\ reply.text = "Report"
    /\ reply.report[1].wins < 0
    /\ reply.report[1].beds < 0

\* The example of the claim: snapshot (10, 20, 5, 1, 0), live (15, 28, 9, 3, 1).
C17_Example ==
    /\ reply.text = "Report"
    /\ \E row \in GetSession(reply.cmd.uuid, reply.cmd.slot) :
           <<row.wins, row.weighted, row.kills, row.finals, row.beds>> = <<10, 20, 5, 1, 0>>
    /\ LET r == reply.report[1]
       IN <<r.wins, r.weighted, r.kills, r.finals, r.beds>> = <<5, 8, 4, 2, 1>>

\* C18: get_total_xp(4, 500) = 6500, get_total_xp(5, 200) = 10200, and
\* get_xp_and_stars(4, 500, 5, 200) = (3700, 0.74).
C18_Scenario ==
    call.at = "returned" =>
        /\ (call.fn = "get_total_xp" /\ call.in = <<4, 500>>) => call.out = <<6500>>
        /\ (call.fn = "get_total_xp" /\ call.in = <<5, 200>>) => call.out = <<10200>>
        /\ (call.fn = "get_xp_and_stars" /\ call.in = <<4, 500, 5, 200>>)
              => call.out = <<3700, 74>>

\* C19: for every level from 0 on, get_xp_for_level returns a positive number:
\* 1000, 2000, 3000, 4000, 5000 at level % 100 = 0, 1, 2, 3, 4 in any century,
\* else 5000 + 500 * (level \div 100) up to century 9 and 10000 from century 10.
C19_XpForLevelTable ==
    (call.fn = "get_xp_for_level" /\ call.at = "returned") =>
        LET level == call.in[1]
            block == level \div 100
        IN /\ call.out[1] > 0
           /\ call.out[1] = IF level % 100 = 0 THEN 1000
                            ELSE IF level % 100 = 1 THEN 2000
                            ELSE IF level % 100 = 2 THEN 3000
                            ELSE IF level % 100 = 3 THEN 4000
                            ELSE IF level % 100 = 4 THEN 5000
                            ELSE IF block <= 9 THEN 5000 + 500 * block
                            ELSE 10000

C19_Witness ==
    /\ call.fn = "get_xp_for_level"
    /\ call.at = "returned"
    /\ call.in[1] \div 100 >= 10
    /\ call.in[1] % 100 = 3
    /\ call.out = <<4000>>

\* C20: get_total_xp(level, 0) never decreases as level grows: what it
\* returns for a level is at least what it returns for every lower level.
C20_TotalXpMonotone ==
    (call.fn = "get_total_xp" /\ call.at = "returned" /\ call.in[2] = 0) =>
        \A a \in 0..call.in[1] : GetTotalXp(a, 0) <= call.out[1]

C20_Witness ==
    /\ call.fn = "get_total_xp"
    /\ call.at = "returned"
    /\ call.in = <<102, 0>>
    /\ call.out[1] > 0

\* The requirements of the levels 1 .. level - 1, counted down from level.
RECURSIVE RequiredBelow(_)
RequiredBelow(level) ==
    IF level <= 1 THEN 0 ELSE RequiredBelow(level - 1) + GetXpForLevel(level - 1)

\* C21: get_total_xp(level, x) is the sum of get_xp_for_level(l) for l from 1
\* to level - 1, plus x; for level 0 and level 1 the sum is empty and the
\* result is x.
C21_TotalXpIsSum ==
    (call.fn = "get_total_xp" /\ call.at = "returned") =>
        /\ call.out = <<RequiredBelow(call.in[1]) + call.in[2]>>
        /\ call.in[1] <= 1 => call.out = <<call.in[2]>>

C21_Witness ==
    /\ call.fn = "get_total_xp"
    /\ call.at = "returned"
    /\ call.in = <<1, 500>>
    /\ call.out = <<500>>

C23_StatusErrorsKeepTheirClass ==
    (call.fn = "make_request" /\ call.at \in {"sleep", "raised"}) =>
        /\ call.log[Len(call.log)] = "rate_limit" => call.exc = "RateLimitError"
        /\ call.log[Len(call.log)] = "status" => call.exc = "UnexpectedStatusError"

\* C24: sessions do not expire and nothing but an end removes them: in every
\* step in which a key that had a row has none afterwards, an end command on
\* that key is answered Deleted; in every other step (create, reset, view,
\* list, link, unlink, a stats request, the clock or the source moving on)
\* no key loses a row.
C24_OnlyEndRemoves ==
    [][/\ \A u \in Players, s \in Slots :
            (RowsOf(sessions, u, s) # {} /\ RowsOf(sessions', u, s) = {})
            => /\ Answered("end")
               /\ reply'.cmd.uuid = u
               /\ reply'.cmd.slot = s
               /\ reply'.text = "Deleted"
       /\ ~Answered("end") =>
            \A u \in Players, s \in Slots :
                Cardinality(Matching(u, s)') >= Cardinality(Matching(u, s))]_vars

\* The session the bot started with has been ended, at the time it was
\* created, and its key is absent.
C24_Witness ==
    /\ reply.cmd.kind = "end"
    /\ reply.cmd.uuid = InitialSession.uuid
    /\ reply.cmd.slot = InitialSession.session_id
    /\ reply.text = "Deleted"
    /\ now = InitialSession.start_date
    /\ sessions = <<>>

\* C26: the seven live values a report is computed from (the five counters,
\* the level and the experience) are those of one single answer of the stats
\* source, also when the source changes while render_session is fetching.
C26_ReportFromOneSnapshot ==
    [][\A pr \in Procs :
          (pc[pr] = "fetch" /\ snap[pr] # <<>> /\ pc'[pr] = "idle" /\ reply'.text = "Report")
          => \E r \in Versions : args[pr] = SnapshotAt(r)]_vars

\* The report of a session in which nothing was gained.
ZeroReport(r) ==
    /\ <<r.wins, r.weighted, r.kills, r.finals, r.beds>> = <<0, 0, 0, 0, 0>>
    /\ r.exp_gained = 0

C27_ConnectionReleased ==
    call.fn \in StoreOps =>
        /\ (call.at \in {"returned", "raised"}) => call.conns = 0
        /\ call.conns \in {0, 1}
        /\ call.connects <= 1
        /\ (~call.cursor /\ call.at \in {"body", "returned"}) => call.connects = 1
        /\ call.cursor => (call.connects = 0 /\ call.conns = 0)

\* create_session, called without a cursor, has opened a connection and has
\* been left by the exception of its fourth stats request.
C27_Witness ==
    /\ call.fn = "create_session"
    /\ ~call.cursor
    /\ call.at = "raised"
    /\ call.done = 3
    /\ call.connects = 1
    /\ call.conns = 0

\* C28: a reset whose key has lost its row since the handler's lookup (an end
\* on the key completed while the reset was fetching) writes nothing: the
\* table is as it was and the key is still absent; and in no step in which a
\* key goes from absent to active is it a reset that ends.
C28_ResetNeverCreates ==
    [][/\ \A pr \in Procs :
            (/\ Resetting(pr, cmd[pr].uuid, cmd[pr].slot)
             /\ Ends(pr, {"Reset"})
             /\ ~HasSession(cmd[pr].uuid, cmd[pr].slot))
            => /\ sessions' = sessions
               /\ RowsOf(sessions', cmd[pr].uuid, cmd[pr].slot) = {}
       /\ \A u \in Players, s \in Slots :
            (RowsOf(sessions, u, s) = {} /\ RowsOf(sessions', u, s) # {})
            => \A pr \in Procs : ~(Resetting(pr, u, s) /\ Ends(pr, {"Reset"}))]_vars

\* A reset has run its UPDATE and answered, and its key has no row: the row
\* its lookup found was deleted by an end before the UPDATE.
C28_Witness ==
    /\ reply.cmd.kind = "reset"
    /\ reply.text = "Reset"
    /\ ~HasSession(reply.cmd.uuid, reply.cmd.slot)
    /\ sessions = <<>>

\* C29: a command that goes on to insert or overwrite a row of player p, or
\* that deletes one, is issued by an account linked to p at that moment; and
\* every step that changes the rows of p is the write of such a command on p,
\* so that a command of an unlinked account, or of an account linked to
\* another player, changes no row of p.
C29_OnlyLinkedAccountWrites ==
    [][/\ \A pr \in Procs :
            (pc[pr] = "idle" /\ pc'[pr] = "fetch" /\ snap'[pr] = <<>>)
            => cmd'[pr].uuid \in LinkedUuids(cmd'[pr].user)
       /\ (Answered("end") /\ sessions' # sessions)
            => reply'.cmd.uuid \in LinkedUuids(reply'.cmd.user)
       /\ \A p \in Players :
            (SelectSeq(sessions', LAMBDA r : r.uuid = p)
                # SelectSeq(sessions, LAMBDA r : r.uuid = p))
            => /\ reply'.cmd.uuid = p
               /\ \/ Answered("end")
                  \/ \E pr \in Procs : Creating(pr, p, cmd[pr].slot) /\ Ends(pr, {"Created", "ViewCreated"})
                  \/ \E pr \in Procs : Resetting(pr, p, cmd[pr].slot) /\ Ends(pr, {"Reset"})]_vars

\* The same for the commands that name no player: only the view, which may,
\* is left out.
C29_ExceptViewOfNamedPlayer ==
    [][/\ \A pr \in Procs :
            (pc[pr] = "idle" /\ pc'[pr] = "fetch" /\ snap'[pr] = <<>>
                /\ cmd'[pr].kind # "view")
            => cmd'[pr].uuid \in LinkedUuids(cmd'[pr].user)
       /\ (Answered("end") /\ sessions' # sessions)
            => reply'.cmd.uuid \in LinkedUuids(reply'.cmd.user)
       /\ \A p \in Players :
            (SelectSeq(sessions', LAMBDA r : r.uuid = p)
                # SelectSeq(sessions, LAMBDA r : r.uuid = p))
            => /\ reply'.cmd.uuid = p
               /\ \/ Answered("end")
                  \/ \E pr \in Procs : Creating(pr, p, cmd[pr].slot) /\ Ends(pr, {"Created", "ViewCreated"})
                  \/ \E pr \in Procs : Resetting(pr, p, cmd[pr].slot) /\ Ends(pr, {"Reset"})]_vars

\* A view by an account with no link has inserted a row of p1.
C29_RowByUnlinkedAccount ==
    /\ reply.text = "ViewCreated"
    /\ reply.cmd.user = "d2"
    /\ reply.cmd.uuid = "p1"
    /\ ncmds = 1
    /\ HasSession("p1", reply.cmd.slot)
    /\ LinkedRows("d2") = {}

\* The rows of the table whose key is not (u, s), in table order.
OtherRows(tbl, u, s) == SelectSeq(tbl, LAMBDA r : ~(r.uuid = u /\ r.session_id = s))

\* C30: the INSERT of a create, the UPDATE of a reset and the DELETE of an
\* end on key (p, s) leave every row with another key as it was, snapshot
\* fields and start_date alike: the other slots of p and all slots of the
\* other players.
C30_OtherKeysUntouched ==
    [][/\ \A pr \in Procs :
            (pc[pr] = "fetch" /\ snap[pr] = <<>>
                /\ Ends(pr, {"Created", "ViewCreated", "Reset"}))
            => OtherRows(sessions', cmd[pr].uuid, cmd[pr].slot)
                   = OtherRows(sessions, cmd[pr].uuid, cmd[pr].slot)
       /\ Answered("end")
            => OtherRows(sessions', reply'.cmd.uuid, reply'.cmd.slot)
                   = OtherRows(sessions, reply'.cmd.uuid, reply'.cmd.slot)]_vars

\* Slot 1 of p1 has been reset while slot 2 of p1 holds a session: the row of
\* slot 2 is there with the start date it was created with.
C30_Witness ==
    /\ reply.cmd.kind = "reset"
    /\ reply.text = "Reset"
    /\ reply.cmd.slot = 1
    /\ \E r1 \in GetSession(reply.cmd.uuid, 1), r2 \in GetSession(reply.cmd.uuid, 2) :
           r1.start_date > r2.start_date

====
